---- MODULE Spec2Model ----
(***************************************************************************)
(* SharedZoneTestContext (functional_test/live_tests):  the fixture that   *)
(* provisions the groups and zones shared by the live tests, and its       *)
(* tear_down.  The client (the fixture) is one sequential process; every   *)
(* remote call is one step.  The remote system (the VinylDNS api, the      *)
(* python client and the helpers of utils) is the environment: its groups, *)
(* its zones and the zone changes it has accepted and not yet processed.   *)
(***************************************************************************)
EXTENDS Integers, FiniteSets, Sequences, TLC

VARIABLES
    pc,           \* the statement of __init__ the fixture is at ("idle": no call in progress)
    cpc,          \* the statement of confirm_member_in_group ("none": not in it)
    td,           \* who called tear_down: "none", "initial", "recovery", "standalone"
    tdpc,         \* the statement of tear_down ("none": not in it)
    i,            \* which create_zone / wait_until_zone_exists call is next
    ok_group,     \* self.ok_group
    dummy_group,  \* self.dummy_group
    retries,      \* confirm_member_in_group: retries
    success,      \* confirm_member_in_group: success
    err,          \* the exception the try block of __init__ raised ("none": none)
    tdErr,        \* the exception the running tear_down raised ("none": none)
    outcome,      \* how the last call left: "none", "ready", "raised", "td_ok", "td_raised"
    raised,       \* the exception that left the last call ("none": it returned)
    constructed,  \* whether a SharedZoneTestContext() has returned: an object exists
    groups,       \* remote: the groups that exist
    zones,        \* remote: the zones that exist
    pending,      \* remote: zone changes accepted (202) and not yet processed
    gen,          \* SharedZoneTestContext() calls so far (the remote generates ids)
    tds,          \* tear_down() calls the test session has made so far
    faults,       \* remote calls that have answered with an unexpected status so far
    slow,         \* zone changes the remote has left pending past their create call
    opFaults,     \* history: unexpected statuses answered during the current call
    listCalls,    \* history: list_all_my_groups calls of the current membership wait
    sleeps,       \* history: time.sleep calls of the current membership wait
    sinceSleep,   \* history: list_all_my_groups calls since the last sleep of the wait
    tdRuns,       \* history: tear_down invocations of the current call
    awaited,      \* history: the zone changes of this fixture waited for so far
    lastStatus,   \* history: the status of the last create_zone response
    okDeletedBy,  \* history: the tear_down steps that deleted group 'ok'
    afterFailedCreate,  \* history: the call before this one was a SharedZoneTestContext()
                  \* that a create_zone response made fail
    preTd,        \* history: the remote state the previous call left, when it was a
                  \* tear_down that returned (NoSnapshot otherwise)
    calls,        \* history: the calls the current SharedZoneTestContext() has made, in
                  \* order, a run of calls of one kind written once
    confirmed,    \* history: the clients whose membership wait has returned in the
                  \* current SharedZoneTestContext()
    tdCalls       \* history: the helper calls the current (or last) tear_down has made

clientVars == <<pc, cpc, td, tdpc, i, ok_group, dummy_group, retries, success, err,
                tdErr, outcome, raised, constructed>>
remoteVars == <<groups, zones, pending>>
boundVars  == <<gen, tds, faults, slow>>
histVars   == <<opFaults, listCalls, sleeps, sinceSleep, tdRuns, awaited,
                lastStatus, okDeletedBy, afterFailedCreate, preTd, calls, confirmed, tdCalls>>
vars == <<clientVars, remoteVars, boundVars, histVars>>

(***************************************************************************)
(* Bounds of the model.                                                    *)
(***************************************************************************)
MaxAcquires  == 2   \* SharedZoneTestContext() calls per session
MaxTearDowns == 2   \* tear_down() calls of the test session
MaxFaults    == 1   \* remote calls answering with an unexpected status
MaxSlow      == 1   \* zone changes still pending when their create call has returned

(***************************************************************************)
(* Constants of the program.                                               *)
(***************************************************************************)
None == [id |-> "None"]

Primary   == "ok"        \* the user of ok_vinyldns_client
Secondary == "dummy"     \* the user of dummy_vinyldns_client
Users     == {Primary, Secondary}

OkGroupId == "ok"

\* confirm_member_in_group: retries = 2
InitialRetries == 2

\* the status create_zone is called with
PendingStatus == 202

\* assert_that(len(zones), is_(2)) and is_(7)
ExpectedDummyZones == 2

\* a slip in the expected count: one zone more is accepted as the fixture's shape
ExpectedOkZonesOneMore == 7 + 1

ExpectedOkZones == 7

\* the group tear_down resets 'ok' to
BaselineOkGroup ==
    [id |-> "ok", name |-> "ok", members |-> {Primary}, admins |-> {Primary}]

\* the group __init__ creates for the dummy user; the remote generates the id
DummyGroupSpec ==
    [name |-> "dummy-group", members |-> {Secondary}, admins |-> {Secondary}]

GeneratedId(n) == "dummy-group-" \o ToString(n)

DummyRule == [accessLevel |-> "Delete", description |-> "some_test_rule",
              userId |-> Secondary]

\* the create_zone calls of __init__, in the order they are made
Catalog == <<
    [name |-> "ok.",                                shared |-> FALSE, client |-> Primary,   acl |-> {}],
    [name |-> "dummy.",                             shared |-> FALSE, client |-> Secondary, acl |-> {}],
    [name |-> "1.9.e.f.c.c.7.2.9.6.d.f.ip6.arpa.",  shared |-> TRUE,  client |-> Primary,   acl |-> {}],
    [name |-> "30.172.in-addr.arpa.",               shared |-> TRUE,  client |-> Primary,   acl |-> {}],
    [name |-> "2.0.192.in-addr.arpa.",              shared |-> FALSE, client |-> Primary,   acl |-> {}],
    [name |-> "192/30.2.0.192.in-addr.arpa.",       shared |-> FALSE, client |-> Primary,   acl |-> {}],
    [name |-> "system-test.",                       shared |-> TRUE,  client |-> Primary,   acl |-> {}],
    [name |-> "parent.com.",                        shared |-> FALSE, client |-> Primary,   acl |-> {DummyRule}] >>

\* the waits without the last one: the change of 'parent.com.' is not waited for
WaitOrderWithoutParent == <<7, 1, 2, 3, 4, 5, 6, 7>>

\* the wait_until_zone_exists calls of __init__, in the order they are made:
\* each entry is the place in Catalog of the zone change waited for
WaitOrder == <<7, 1, 2, 3, 4, 5, 6, 7, 8>>

\* a tear_down that deletes the groups first and clears the zones after
TearDownGroupsFirst == <<"clear_groups_dummy", "clear_groups_ok", "update_group",
                         "clear_zones_dummy", "clear_zones_ok">>

\* the helpers tear_down calls, in the order it calls them
TearDownOrder == <<"clear_zones_dummy", "clear_zones_ok", "clear_groups_dummy",
                   "clear_groups_ok", "update_group">>

\* clear_groups(self.ok_vinyldns_client, exclude=['ok']) and
\* clear_groups(self.dummy_vinyldns_client)
OkExclude == {OkGroupId}
DummyExclude == {}

(***************************************************************************)
(* The remote system, as the fixture sees it through the client and the    *)
(* helpers of utils.                                                       *)
(***************************************************************************)
NoSnapshot == [groups |-> {}, zones |-> {None}]

Snapshot(gs, zs) == [groups |-> gs, zones |-> zs]

\* the zone a create_zone call of __init__ describes; the remote gives it an id
ZoneOf(k, adminGroupId, n) ==
    [name |-> Catalog[k].name, id |-> n, adminGroupId |-> adminGroupId,
     shared |-> Catalog[k].shared, acl |-> Catalog[k].acl]

\* a zone is listed for a user who is a member of its admin group or named by
\* one of its ACL rules
Visible(u, z, gs) ==
    \/ \E g \in gs : g.id = z.adminGroupId /\ u \in g.members
    \/ \E r \in z.acl : r.userId = u

\* client.list_zones()['zones']
ListZones(u, zs, gs) == {z \in zs : Visible(u, z, gs)}

\* client.list_all_my_groups()
ListAllMyGroups(u, gs) == {g \in gs : u \in g.members}

\* clear_zones(client): deletes every zone listed for the client
ClearZones(u, zs, gs) == zs \ ListZones(u, zs, gs)

\* clear_groups(client, exclude): deletes every group listed for the client
\* whose id is not excluded
ClearGroups(u, exclude, gs) ==
    gs \ {g \in ListAllMyGroups(u, gs) : g.id \notin exclude}

GroupExists(id, gs) == \E g \in gs : g.id = id

\* update_group(id, group): replaces the group of that id
UpdateGroup(id, group, gs) == {g \in gs : g.id # id} \cup {group}

NameTaken(name, zs) == \E z \in zs : z.name = name

(***************************************************************************)
(* The state before the first use: the remote holds group 'ok', and what a *)
(* crashed earlier run may have left behind.                               *)
(***************************************************************************)
LeftoverOkZone == ZoneOf(1, OkGroupId, 0)

LeakedZone == [name |-> "leaked.", id |-> 0, adminGroupId |-> OkGroupId,
               shared |-> FALSE, acl |-> {}]

LeftoverDummyGroup ==
    [id |-> GeneratedId(0), name |-> "dummy-group",
     members |-> {Secondary}, admins |-> {Secondary}]

Leftovers ==
    { [groups |-> {}, zones |-> {}, pending |-> {}],
      [groups |-> {}, zones |-> {LeftoverOkZone}, pending |-> {}],
      [groups |-> {LeftoverDummyGroup}, zones |-> {}, pending |-> {}],
      [groups |-> {}, zones |-> {}, pending |-> {LeakedZone}] }

Init ==
    /\ pc = "idle" /\ cpc = "none" /\ td = "none" /\ tdpc = "none" /\ i = 0
    /\ ok_group = None /\ dummy_group = None
    /\ retries = 0 /\ success = FALSE
    /\ err = "none" /\ tdErr = "none" /\ outcome = "none" /\ raised = "none"
    /\ constructed = FALSE
    /\ \E l \in Leftovers :
          /\ groups = {BaselineOkGroup} \cup l.groups
          /\ zones = l.zones
          /\ pending = l.pending
          /\ slow = Cardinality(l.pending)
    /\ gen = 0 /\ tds = 0 /\ faults = 0
    /\ opFaults = 0 /\ listCalls = 0 /\ sleeps = 0 /\ sinceSleep = 0
    /\ tdRuns = 0 /\ awaited = {} /\ confirmed = {} /\ lastStatus = 0 /\ okDeletedBy = {}
    /\ afterFailedCreate = FALSE
    /\ preTd = NoSnapshot
    /\ calls = <<>> /\ tdCalls = <<>>

(***************************************************************************)
(* tear_down                                                               *)
(***************************************************************************)
\* an except clause in which the error of the recovery tear_down wins
ReraiseLatest(original, tdError) == IF tdError # "none" THEN tdError ELSE original

\* except: try: self.tear_down() except: pass; raise
\* the exception that leaves __init__ when the try block raised original and
\* the recovery tear_down ended with tdError ("none": it returned)
Reraise(original, tdError) == original

\* what follows the end of tear_down, e its exception ("none": it returned),
\* gs and zs the groups and zones it leaves
AfterTearDown(e, gs, zs) ==
    /\ td' = "none" /\ tdpc' = "none" /\ tdErr' = e
    /\ CASE td = "initial" /\ e = "none" ->
              /\ pc' = "get_group"
              /\ UNCHANGED <<outcome, raised, preTd>>
         [] td = "initial" /\ e # "none" ->
              /\ pc' = "idle" /\ outcome' = "raised" /\ raised' = e
              /\ UNCHANGED preTd
         [] td = "recovery" ->
              /\ pc' = "idle" /\ outcome' = "raised" /\ raised' = Reraise(err, e)
              /\ UNCHANGED preTd
         [] td = "standalone" /\ e = "none" ->
              /\ pc' = "idle" /\ outcome' = "td_ok" /\ raised' = "none"
              /\ preTd' = Snapshot(gs, zs)
         [] td = "standalone" /\ e # "none" ->
              /\ pc' = "idle" /\ outcome' = "td_raised" /\ raised' = e
              /\ preTd' = NoSnapshot

\* what a step of tear_down before its last leaves alone
tdStepUnchanged ==
    <<pc, cpc, td, i, ok_group, dummy_group, retries, success, err, tdErr, outcome,
      raised, constructed, boundVars, opFaults, listCalls, sleeps, sinceSleep, tdRuns, awaited, confirmed,
      lastStatus, afterFailedCreate, preTd, calls>>

\* the test session calls tear_down() on a fixture it has constructed
TearDown ==
    /\ pc = "idle" /\ tds < MaxTearDowns
    /\ constructed
    /\ pc' = "tear_down" /\ td' = "standalone" /\ tdpc' = TearDownOrder[1]
    /\ tds' = tds + 1 /\ opFaults' = 0 /\ tdRuns' = 1 /\ awaited' = {} /\ confirmed' = {} /\ lastStatus' = 0
    /\ outcome' = "none" /\ raised' = "none" /\ err' = "none" /\ tdErr' = "none"
    /\ afterFailedCreate' = FALSE
    /\ calls' = <<>> /\ tdCalls' = <<>>
    /\ UNCHANGED <<cpc, i, ok_group, dummy_group, retries, success, constructed,
                   remoteVars, gen, faults, slow, listCalls, sleeps, sinceSleep,
                   okDeletedBy, preTd>>

\* clear_zones(self.dummy_vinyldns_client)
ClearZonesDummy ==
    /\ pc = "tear_down" /\ tdpc = "clear_zones_dummy"
    /\ zones' = ClearZones(Secondary, zones, groups)
    /\ tdpc' = "clear_zones_ok" /\ tdCalls' = Append(tdCalls, tdpc)
    /\ UNCHANGED <<tdStepUnchanged, groups, pending, okDeletedBy>>

\* a tear_down that does not clear the zones of the ok user
ClearZonesOkSkipped ==
    /\ pc = "tear_down" /\ tdpc = "clear_zones_ok"
    /\ tdpc' = "clear_groups_dummy" /\ tdCalls' = tdCalls
    /\ UNCHANGED <<tdStepUnchanged, remoteVars, okDeletedBy>>

\* clear_zones(self.ok_vinyldns_client)
ClearZonesOk ==
    /\ pc = "tear_down" /\ tdpc = "clear_zones_ok"
    /\ zones' = ClearZones(Primary, zones, groups)
    /\ tdpc' = "clear_groups_dummy" /\ tdCalls' = Append(tdCalls, tdpc)
    /\ UNCHANGED <<tdStepUnchanged, groups, pending, okDeletedBy>>

\* clear_groups(self.dummy_vinyldns_client)
ClearGroupsDummy ==
    /\ pc = "tear_down" /\ tdpc = "clear_groups_dummy"
    /\ groups' = ClearGroups(Secondary, DummyExclude, groups)
    /\ okDeletedBy' = IF GroupExists(OkGroupId, groups) /\ ~GroupExists(OkGroupId, groups')
                      THEN okDeletedBy \cup {tdpc} ELSE okDeletedBy
    /\ tdpc' = "clear_groups_ok" /\ tdCalls' = Append(tdCalls, tdpc)
    /\ UNCHANGED <<tdStepUnchanged, zones, pending>>

\* clear_groups(self.ok_vinyldns_client, exclude=['ok'])
ClearGroupsOk ==
    /\ pc = "tear_down" /\ tdpc = "clear_groups_ok"
    /\ groups' = ClearGroups(Primary, OkExclude, groups)
    /\ okDeletedBy' = IF GroupExists(OkGroupId, groups) /\ ~GroupExists(OkGroupId, groups')
                      THEN okDeletedBy \cup {tdpc} ELSE okDeletedBy
    /\ tdpc' = "update_group" /\ tdCalls' = Append(tdCalls, tdpc)
    /\ UNCHANGED <<tdStepUnchanged, zones, pending>>

\* self.ok_vinyldns_client.update_group(ok_group['id'], ok_group, status=200):
\* the last statement of tear_down
ResetOkGroup ==
    /\ pc = "tear_down" /\ tdpc = "update_group"
    /\ IF GroupExists(BaselineOkGroup.id, groups)
       THEN /\ groups' = UpdateGroup(BaselineOkGroup.id, BaselineOkGroup, groups)
            /\ AfterTearDown("none", groups', zones)
       ELSE /\ UNCHANGED groups
            /\ AfterTearDown("update_group", groups, zones)
    /\ tdCalls' = Append(tdCalls, tdpc)
    /\ UNCHANGED <<cpc, i, ok_group, dummy_group, retries, success, err, constructed,
                   zones, pending, boundVars, opFaults, listCalls, sleeps, sinceSleep, tdRuns, awaited, confirmed,
                   lastStatus, okDeletedBy, afterFailedCreate, calls>>

\* a constructor that goes on to its try block when its initial tear_down raised
TearDownFaultSwallowed ==
    /\ pc = "tear_down" /\ faults < MaxFaults
    /\ faults' = faults + 1 /\ opFaults' = opFaults + 1
    /\ IF td = "initial"
       THEN /\ td' = "none" /\ tdpc' = "none" /\ tdErr' = tdpc
            /\ pc' = "get_group"
            /\ UNCHANGED <<outcome, raised, preTd>>
       ELSE AfterTearDown(tdpc, groups, zones)
    /\ tdCalls' = Append(tdCalls, tdpc)
    /\ UNCHANGED <<cpc, i, ok_group, dummy_group, retries, success, err, constructed,
                   remoteVars, gen, tds, slow, listCalls, sleeps, sinceSleep, tdRuns, awaited, confirmed,
                   lastStatus, okDeletedBy, afterFailedCreate, calls>>

\* a helper of tear_down gets an unexpected status and raises
TearDownFault ==
    /\ pc = "tear_down" /\ faults < MaxFaults
    /\ faults' = faults + 1 /\ opFaults' = opFaults + 1
    /\ AfterTearDown(tdpc, groups, zones)
    /\ tdCalls' = Append(tdCalls, tdpc)
    /\ UNCHANGED <<cpc, i, ok_group, dummy_group, retries, success, err, constructed,
                   remoteVars, gen, tds, slow, listCalls, sleeps, sinceSleep, tdRuns, awaited, confirmed,
                   lastStatus, okDeletedBy, afterFailedCreate, calls>>

(***************************************************************************)
(* __init__                                                                *)
(***************************************************************************)
\* a statement of the try block raises e: control goes to the except clause
Raise(e) ==
    /\ pc' = "except" /\ err' = e
    /\ cpc' = "none" /\ i' = 0 /\ retries' = 0 /\ success' = FALSE

\* what a step of the try block leaves alone, besides what it names
tryUnchanged ==
    <<td, tdpc, tdErr, outcome, raised, constructed, gen, tds, tdRuns, okDeletedBy,
      afterFailedCreate, preTd, tdCalls>>

\* the call c is made: it is written to the history, unless the call before it
\* was of the same kind
Called(c) ==
    calls' = IF calls # <<>> /\ calls[Len(calls)] = c THEN calls ELSE Append(calls, c)

\* a constructor that enters its try block without the initial tear_down
AcquireWithoutTearDown ==
    /\ pc = "idle" /\ gen < MaxAcquires
    /\ ok_group' = None /\ dummy_group' = None
    /\ pc' = "get_group"
    /\ gen' = gen + 1
    /\ opFaults' = 0 /\ tdRuns' = 0 /\ awaited' = {} /\ confirmed' = {} /\ lastStatus' = 0
    /\ listCalls' = 0 /\ sleeps' = 0 /\ sinceSleep' = 0
    /\ outcome' = "none" /\ raised' = "none" /\ err' = "none" /\ tdErr' = "none"
    /\ preTd' = NoSnapshot
    /\ afterFailedCreate' = (outcome = "raised" /\ err = "create_zone")
    /\ calls' = <<>> /\ tdCalls' = <<>>
    /\ UNCHANGED <<cpc, td, tdpc, i, retries, success, constructed, remoteVars, tds,
                   faults, slow, okDeletedBy>>

\* SharedZoneTestContext(): the lines before the try block, up to the call of
\* tear_down
Acquire ==
    /\ pc = "idle" /\ gen < MaxAcquires
    /\ ok_group' = None /\ dummy_group' = None
    /\ pc' = "tear_down" /\ td' = "initial" /\ tdpc' = TearDownOrder[1]
    /\ gen' = gen + 1
    /\ opFaults' = 0 /\ tdRuns' = 1 /\ awaited' = {} /\ confirmed' = {} /\ lastStatus' = 0
    /\ listCalls' = 0 /\ sleeps' = 0 /\ sinceSleep' = 0
    /\ outcome' = "none" /\ raised' = "none" /\ err' = "none" /\ tdErr' = "none"
    /\ preTd' = NoSnapshot
    /\ afterFailedCreate' = (outcome = "raised" /\ err = "create_zone")
    /\ calls' = <<"tear_down">> /\ tdCalls' = <<>>
    /\ UNCHANGED <<cpc, i, retries, success, constructed, remoteVars, tds, faults,
                   slow, okDeletedBy>>

\* self.ok_group = self.ok_vinyldns_client.get_group("ok", status=200)
GetGroup ==
    /\ pc = "get_group"
    /\ GroupExists(OkGroupId, groups)
    /\ ok_group' = CHOOSE g \in groups : g.id = OkGroupId
    /\ pc' = "confirm_ok" /\ cpc' = "first"
    /\ Called("get_group")
    /\ UNCHANGED <<tryUnchanged, i, dummy_group, retries, success, err, remoteVars,
                   faults, slow, opFaults, listCalls, sleeps, sinceSleep, awaited, confirmed,
                   lastStatus>>

\* get_group answers with a status other than 200
GetGroupFails ==
    /\ pc = "get_group"
    /\ ~GroupExists(OkGroupId, groups) \/ faults < MaxFaults
    /\ faults' = IF GroupExists(OkGroupId, groups) THEN faults + 1 ELSE faults
    /\ opFaults' = IF GroupExists(OkGroupId, groups) THEN opFaults + 1 ELSE opFaults
    /\ Raise("get_group")
    /\ Called("get_group")
    /\ UNCHANGED <<tryUnchanged, ok_group, dummy_group, remoteVars, slow, listCalls,
                   sleeps, sinceSleep, awaited, confirmed, lastStatus>>

(***************************************************************************)
(* confirm_member_in_group(client, group)                                  *)
(***************************************************************************)
ConfirmClient == IF pc = "confirm_ok" THEN Primary ELSE Secondary
ConfirmGroup  == IF pc = "confirm_ok" THEN ok_group ELSE dummy_group

\* group in client.list_all_my_groups(status=200): the listing may lag behind
\* the membership, so the group may be missing from it
ListingHasGroup(u, g, gs) == {g \in ListAllMyGroups(u, gs), FALSE}

\* a loop that stops one round earlier
LoopConditionStrict(r, s) == r > 0 /\ ~s

\* a loop without a budget: it goes on until a listing contains the group
LoopConditionUnbounded(r, s) == ~s

\* while retries >= 0 and not success
LoopCondition(r, s) == r >= 0 /\ ~s

confirmUnchanged ==
    <<tryUnchanged, pc, i, ok_group, dummy_group, err, remoteVars, faults, slow,
      opFaults, awaited, confirmed, lastStatus>>

\* retries = 2; success = group in client.list_all_my_groups(status=200)
ConfirmFirst ==
    /\ pc \in {"confirm_ok", "confirm_dummy"} /\ cpc = "first"
    /\ retries' = InitialRetries
    /\ success' \in ListingHasGroup(ConfirmClient, ConfirmGroup, groups)
    /\ listCalls' = 1 /\ sleeps' = 0 /\ sinceSleep' = 1
    /\ cpc' = "while"
    /\ Called(pc)
    /\ UNCHANGED confirmUnchanged

\* the loop is entered: success = group in client.list_all_my_groups(status=200)
ConfirmList ==
    /\ pc \in {"confirm_ok", "confirm_dummy"} /\ cpc = "while"
    /\ LoopCondition(retries, success)
    /\ success' \in ListingHasGroup(ConfirmClient, ConfirmGroup, groups)
    /\ listCalls' = listCalls + 1 /\ sinceSleep' = sinceSleep + 1
    /\ cpc' = "sleep"
    /\ Called(pc)
    /\ UNCHANGED <<confirmUnchanged, retries, sleeps>>

\* time.sleep(.05); retries -= 1
ConfirmSleep ==
    /\ pc \in {"confirm_ok", "confirm_dummy"} /\ cpc = "sleep"
    /\ sleeps' = sleeps + 1 /\ sinceSleep' = 0
    /\ retries' = retries - 1
    /\ cpc' = "while"
    /\ UNCHANGED <<confirmUnchanged, success, listCalls, calls>>

\* a membership wait without its assertion: the call goes on whatever the
\* listings answered
ConfirmWithoutAssert ==
    /\ pc \in {"confirm_ok", "confirm_dummy"} /\ cpc = "while"
    /\ ~LoopCondition(retries, success)
    /\ pc' = IF pc = "confirm_ok" THEN "create_group" ELSE "create_zone"
    /\ i' = IF pc = "confirm_ok" THEN 0 ELSE 1
    /\ cpc' = "none" /\ retries' = 0 /\ success' = FALSE
    /\ confirmed' = IF success THEN confirmed \cup {ConfirmClient} ELSE confirmed
    /\ UNCHANGED err
    /\ listCalls' = 0 /\ sleeps' = 0 /\ sinceSleep' = 0
    /\ UNCHANGED <<tryUnchanged, ok_group, dummy_group, remoteVars, faults, slow,
                   opFaults, awaited, lastStatus, calls>>

\* the loop is left: assert_that(success, is_(True)), and the statement after
\* the call
ConfirmAssert ==
    /\ pc \in {"confirm_ok", "confirm_dummy"} /\ cpc = "while"
    /\ ~LoopCondition(retries, success)
    /\ IF success
       THEN /\ pc' = IF pc = "confirm_ok" THEN "create_group" ELSE "create_zone"
            /\ i' = IF pc = "confirm_ok" THEN 0 ELSE 1
            /\ cpc' = "none" /\ retries' = 0 /\ success' = FALSE
            /\ confirmed' = confirmed \cup {ConfirmClient}
            /\ UNCHANGED err
       ELSE Raise("confirm_member_in_group") /\ UNCHANGED confirmed
    /\ listCalls' = 0 /\ sleeps' = 0 /\ sinceSleep' = 0
    /\ UNCHANGED <<tryUnchanged, ok_group, dummy_group, remoteVars, faults, slow,
                   opFaults, awaited, lastStatus, calls>>

(***************************************************************************)
(* __init__, continued: the dummy group and the zones                      *)
(***************************************************************************)
\* self.dummy_group = self.dummy_vinyldns_client.create_group(dummy_group, status=200)
CreateGroup ==
    /\ pc = "create_group"
    /\ LET g == [id |-> GeneratedId(gen), name |-> DummyGroupSpec.name,
                 members |-> DummyGroupSpec.members, admins |-> DummyGroupSpec.admins]
       IN /\ groups' = groups \cup {g}
          /\ dummy_group' = g
    /\ pc' = "confirm_dummy" /\ cpc' = "first"
    /\ Called("create_group")
    /\ UNCHANGED <<tryUnchanged, i, ok_group, retries, success, err, zones, pending,
                   faults, slow, opFaults, listCalls, sleeps, sinceSleep, awaited, confirmed,
                   lastStatus>>

\* create_group answers with a status other than 200
CreateGroupFails ==
    /\ pc = "create_group" /\ faults < MaxFaults
    /\ faults' = faults + 1 /\ opFaults' = opFaults + 1
    /\ Raise("create_group")
    /\ Called("create_group")
    /\ UNCHANGED <<tryUnchanged, ok_group, dummy_group, remoteVars, slow, listCalls,
                   sleeps, sinceSleep, awaited, confirmed, lastStatus>>

\* the zone the i-th create_zone call asks for: 'adminGroupId' is
\* self.ok_group['id'] or self.dummy_group['id']
Requested(k) ==
    ZoneOf(k, IF Catalog[k].client = Primary THEN ok_group.id ELSE dummy_group.id, gen)

\* a check that takes every success status for the expected one
AcceptsAnySuccess(status) == status \in {200, 202}

\* create_zone(..., status=202): whether the response status is the expected one
Accepts(status) == status = PendingStatus

\* the create_zone call returns with that status: the next create_zone call,
\* the first wait after the last one, or the except clause
CreateZoneReturns(status) ==
    /\ lastStatus' = status
    /\ Called("create_zone")
    /\ IF Accepts(status)
       THEN /\ IF i < Len(Catalog)
               THEN pc' = "create_zone" /\ i' = i + 1
               ELSE pc' = "wait" /\ i' = 1
            /\ UNCHANGED <<cpc, retries, success, err>>
       ELSE Raise("create_zone")

createUnchanged ==
    <<tryUnchanged, ok_group, dummy_group, groups, listCalls, sleeps, sinceSleep, awaited, confirmed>>

\* the remote accepts the zone change (202) and has processed it by the time
\* the fixture makes its next call
CreateZone ==
    /\ pc = "create_zone"
    /\ ~NameTaken(Requested(i).name, zones)
    /\ zones' = zones \cup {Requested(i)}
    /\ CreateZoneReturns(202)
    /\ UNCHANGED <<createUnchanged, pending, faults, slow, opFaults>>

\* the remote accepts the zone change (202) and leaves it pending
CreateZoneSlow ==
    /\ pc = "create_zone" /\ slow < MaxSlow
    /\ ~NameTaken(Requested(i).name, zones)
    /\ pending' = pending \cup {Requested(i)}
    /\ slow' = slow + 1
    /\ CreateZoneReturns(202)
    /\ UNCHANGED <<createUnchanged, zones, faults, opFaults>>

\* a zone of that name exists: the remote refuses the request (409)
CreateZoneConflict ==
    /\ pc = "create_zone"
    /\ NameTaken(Requested(i).name, zones)
    /\ CreateZoneReturns(409)
    /\ UNCHANGED <<createUnchanged, zones, pending, faults, slow, opFaults>>

\* the remote answers with an unexpected status: 200, the zone created at once,
\* or 500, nothing created
CreateZoneFault ==
    /\ pc = "create_zone" /\ faults < MaxFaults
    /\ ~NameTaken(Requested(i).name, zones)
    /\ \E status \in {200, 500} :
          /\ zones' = IF status = 200 THEN zones \cup {Requested(i)} ELSE zones
          /\ CreateZoneReturns(status)
    /\ faults' = faults + 1 /\ opFaults' = opFaults + 1
    /\ UNCHANGED <<createUnchanged, pending, slow>>

\* client.wait_until_zone_exists(zone_change) returns: the zone exists
WaitUntilZoneExists ==
    /\ pc = "wait"
    /\ Requested(WaitOrder[i]) \in zones
    /\ awaited' = awaited \cup {WaitOrder[i]}
    /\ IF i < Len(WaitOrder)
       THEN pc' = "wait" /\ i' = i + 1
       ELSE pc' = "list_dummy" /\ i' = 0
    /\ Called("wait_until_zone_exists")
    /\ UNCHANGED <<tryUnchanged, confirmed, cpc, ok_group, dummy_group, retries, success, err,
                   remoteVars, faults, slow, opFaults, listCalls, sleeps, sinceSleep,
                   lastStatus>>

\* client.wait_until_zone_exists(zone_change) gives up: the zone does not exist
\* within the bound of the helper
WaitTimesOut ==
    /\ pc = "wait"
    /\ Requested(WaitOrder[i]) \notin zones
    /\ Raise("wait_until_zone_exists")
    /\ Called("wait_until_zone_exists")
    /\ UNCHANGED <<tryUnchanged, ok_group, dummy_group, remoteVars, faults, slow,
                   opFaults, listCalls, sleeps, sinceSleep, awaited, confirmed, lastStatus>>

\* zones = self.dummy_vinyldns_client.list_zones()['zones']
\* assert_that(len(zones), is_(2))
ValidateDummyZones ==
    /\ pc = "list_dummy"
    /\ IF Cardinality(ListZones(Secondary, zones, groups)) = ExpectedDummyZones
       THEN pc' = "list_ok" /\ UNCHANGED <<cpc, i, retries, success, err>>
       ELSE Raise("assert_dummy_zones")
    /\ Called("list_zones_dummy")
    /\ UNCHANGED <<tryUnchanged, ok_group, dummy_group, remoteVars, faults, slow,
                   opFaults, listCalls, sleeps, sinceSleep, awaited, confirmed, lastStatus>>

\* zones = self.ok_vinyldns_client.list_zones()['zones']
\* assert_that(len(zones), is_(7)); __init__ returns
ValidateOkZones ==
    /\ pc = "list_ok"
    /\ IF Cardinality(ListZones(Primary, zones, groups)) = ExpectedOkZones
       THEN /\ pc' = "idle" /\ outcome' = "ready" /\ raised' = "none"
            /\ constructed' = TRUE
            /\ UNCHANGED <<cpc, i, retries, success, err>>
       ELSE Raise("assert_ok_zones") /\ UNCHANGED <<outcome, raised, constructed>>
    /\ Called("list_zones_ok")
    /\ UNCHANGED <<td, tdpc, tdErr, gen, tds, tdRuns, okDeletedBy, afterFailedCreate, preTd,
                   tdCalls,
                   ok_group, dummy_group, remoteVars, faults, slow,
                   opFaults, listCalls, sleeps, sinceSleep, awaited, confirmed, lastStatus>>

\* an except clause that re-raises without the recovery tear_down
ExceptWithoutTearDown ==
    /\ pc = "except"
    /\ pc' = "idle" /\ outcome' = "raised" /\ raised' = err
    /\ UNCHANGED <<cpc, td, tdpc, i, ok_group, dummy_group, retries, success, err, tdErr,
                   constructed, remoteVars, boundVars, histVars>>

\* except: try: self.tear_down() ...
Except ==
    /\ pc = "except"
    /\ pc' = "tear_down" /\ td' = "recovery" /\ tdpc' = TearDownOrder[1]
    /\ tdRuns' = tdRuns + 1
    /\ Called("tear_down") /\ tdCalls' = <<>>
    /\ UNCHANGED <<cpc, i, ok_group, dummy_group, retries, success, err, tdErr, outcome,
                   raised, constructed, remoteVars, boundVars, opFaults, listCalls, sleeps,
                   sinceSleep, awaited, confirmed, lastStatus, okDeletedBy, afterFailedCreate,
                   preTd>>

(***************************************************************************)
(* The remote system on its own                                            *)
(***************************************************************************)
\* the remote processes a pending zone change: the zone comes to exist, unless
\* a zone of that name exists by then
Complete ==
    \E z \in pending :
        /\ pending' = pending \ {z}
        /\ zones' = IF NameTaken(z.name, zones) THEN zones ELSE zones \cup {z}
        /\ UNCHANGED <<clientVars, groups, boundVars, histVars>>

Next ==
    \/ Acquire
    \/ TearDown
    \/ ClearZonesDummy
    \/ ClearZonesOk
    \/ ClearGroupsDummy
    \/ ClearGroupsOk
    \/ ResetOkGroup
    \/ TearDownFault
    \/ GetGroup
    \/ GetGroupFails
    \/ ConfirmFirst
    \/ ConfirmList
    \/ ConfirmSleep
    \/ ConfirmAssert
    \/ CreateGroup
    \/ CreateGroupFails
    \/ CreateZone
    \/ CreateZoneSlow
    \/ CreateZoneConflict
    \/ CreateZoneFault
    \/ WaitUntilZoneExists
    \/ WaitTimesOut
    \/ ValidateDummyZones
    \/ ValidateOkZones
    \/ Except
    \/ Complete

Spec == Init /\ [][Next]_vars

(***************************************************************************)
(* The fixture is one sequential process and every call it makes returns:  *)
(* a call in progress takes its next step.  Nothing is assumed of the      *)
(* test session (it may never call again) nor of the remote on its own (a  *)
(* pending zone change may never be processed).                            *)
(***************************************************************************)
ClientStep ==
    \/ ClearZonesDummy
    \/ ClearZonesOk
    \/ ClearGroupsDummy
    \/ ClearGroupsOk
    \/ ResetOkGroup
    \/ TearDownFault
    \/ GetGroup
    \/ GetGroupFails
    \/ ConfirmFirst
    \/ ConfirmList
    \/ ConfirmSleep
    \/ ConfirmAssert
    \/ CreateGroup
    \/ CreateGroupFails
    \/ CreateZone
    \/ CreateZoneSlow
    \/ CreateZoneConflict
    \/ CreateZoneFault
    \/ WaitUntilZoneExists
    \/ WaitTimesOut
    \/ ValidateDummyZones
    \/ ValidateOkZones
    \/ Except

SpecFair == Init /\ [][Next]_vars /\ WF_vars(ClientStep)

(***************************************************************************)
(* The tests that use the fixture change who is in group 'ok'; this is why *)
(* tear_down resets it.                                                    *)
(***************************************************************************)
TestUpdatesOkGroup ==
    /\ pc = "idle" /\ outcome = "ready"
    /\ GroupExists(OkGroupId, groups)
    /\ \E m \in {{Primary, Secondary}, {Secondary}} :
          /\ groups' = UpdateGroup(OkGroupId,
                          [BaselineOkGroup EXCEPT !.members = m, !.admins = m], groups)
          /\ groups' # groups
    /\ UNCHANGED <<clientVars, zones, pending, boundVars, histVars>>

NextWithTests == Next \/ TestUpdatesOkGroup

SpecWithTests == Init /\ [][NextWithTests]_vars

(***************************************************************************)
(* The scenario of a crashed earlier run that left zone 'ok.' behind.      *)
(***************************************************************************)
InitLeftoverOk == Init /\ zones = {LeftoverOkZone}

SpecLeftoverOk == InitLeftoverOk /\ [][Next]_vars

(***************************************************************************)
(* What the calls of the fixture look like from outside                    *)
(***************************************************************************)
\* this step is SharedZoneTestContext() returning a fixture
AcquireReturns == pc # "idle" /\ pc' = "idle" /\ outcome' = "ready"

\* this step is a tear_down returning (not raising), whoever called it
TearDownReturns == pc = "tear_down" /\ td' = "none" /\ tdErr' = "none"

\* a SharedZoneTestContext() call has raised out of its try block and has left
AcquireFailed == pc = "idle" /\ outcome = "raised" /\ err # "none"

(***************************************************************************)
(* C1  Whenever SharedZoneTestContext() returns without raising, at the    *)
(* moment it returns list_zones holds exactly 2 zones for the dummy user   *)
(* and exactly 7 for the ok user.                                          *)
(***************************************************************************)
C1_PostAcquireZoneCounts ==
    [][AcquireReturns =>
          /\ Cardinality(ListZones(Secondary, zones', groups')) = 2
          /\ Cardinality(ListZones(Primary, zones', groups')) = 7]_vars

C1_Witness ==
    /\ pc = "idle" /\ outcome = "ready"
    /\ Cardinality(ListZones(Secondary, zones, groups)) = 2
    /\ Cardinality(ListZones(Primary, zones, groups)) = 7

(***************************************************************************)
(* C2  The membership wait makes at most 3 calls of list_all_my_groups,    *)
(* whatever the listings answer.                                           *)
(***************************************************************************)
C2_AtMostThreeListCalls == listCalls <= 3

(***************************************************************************)
(* C3  Once a statement of the try block has raised, tear_down is invoked  *)
(* once more before the error leaves __init__ (the second invocation of    *)
(* the call), and the call never returns a fixture.                        *)
(***************************************************************************)
C3_FailureRunsTearDownThenRaises ==
    err # "none" =>
        /\ outcome # "ready"
        /\ pc \in {"except", "tear_down", "idle"}
        /\ pc = "tear_down" => td = "recovery" /\ tdRuns = 2
        /\ pc = "idle" => outcome = "raised" /\ tdRuns = 2

C3_Witness ==
    /\ AcquireFailed /\ tdRuns = 2
    /\ err = "wait_until_zone_exists"

\* no zone, and no zone change, of a run before the first call is involved
NoEarlierRun(zs) == \A z \in zs : z.id # 0

(***************************************************************************)
(* C4  After a SharedZoneTestContext() that a create_zone response made    *)
(* fail, the next SharedZoneTestContext(), which the remote answers with   *)
(* the expected statuses and in time, returns a fixture, whenever the zone *)
(* changes the first call left pending are processed.                      *)
(***************************************************************************)
C4_AcquireAfterFailedCreateSucceeds ==
    ( /\ pc = "idle" /\ outcome \in {"ready", "raised"}
      /\ afterFailedCreate
      /\ opFaults = 0
      /\ err \notin {"confirm_member_in_group", "wait_until_zone_exists",
                     "assert_ok_zones", "assert_dummy_zones"} )
    => outcome = "ready"

(***************************************************************************)
(* C5  A tear_down() called right after a tear_down() leaves the remote as *)
(* the first left it: no zone listed for either user, no group but 'ok',   *)
(* and 'ok' with the ok user as its only member and admin.                 *)
(***************************************************************************)
C5_TearDownTwiceSameState ==
    [][( /\ TearDownReturns /\ td = "standalone"
         /\ preTd # NoSnapshot
         /\ NoEarlierRun(zones' \cup preTd.zones) )
       => /\ Snapshot(groups', zones') = preTd
          /\ ListZones(Primary, zones', groups') = {}
          /\ ListZones(Secondary, zones', groups') = {}
          /\ groups' = {BaselineOkGroup}]_vars

(***************************************************************************)
(* C6  When a tear_down returns, whoever called it and whatever state it   *)
(* started from, no zone is listed for either user, no group exists but    *)
(* 'ok', and the ok user is the only member and admin of 'ok'.             *)
(***************************************************************************)
C6_TearDownRestoresBaseline ==
    [][(TearDownReturns /\ NoEarlierRun(zones'))
       => /\ ListZones(Primary, zones', groups') = {}
          /\ ListZones(Secondary, zones', groups') = {}
          /\ groups' = {BaselineOkGroup}]_vars

(***************************************************************************)
(* C7  Group 'ok' always exists: no step of any tear_down deletes it, also *)
(* when the tests have changed its members between the calls.              *)
(***************************************************************************)
C7_OkGroupNeverDeleted ==
    GroupExists(OkGroupId, groups) /\ okDeletedBy = {}

(***************************************************************************)
(* C8  Started with a leftover zone 'ok.' of the ok user, the first        *)
(* SharedZoneTestContext() has deleted that zone when its initial          *)
(* tear_down returns, so before its create_zone for 'ok.'; and when it     *)
(* returns a fixture, the 'ok.' it created is one of exactly 7 zones       *)
(* listed for the ok user.                                                 *)
(***************************************************************************)
C8_LeftoverOkZoneReplaced ==
    [][gen' = 1 =>
          /\ (pc' \notin {"idle", "tear_down"} \/ td' = "recovery")
                => LeftoverOkZone \notin zones'
          /\ AcquireReturns =>
                /\ ZoneOf(1, OkGroupId, 1) \in zones'
                /\ Cardinality(ListZones(Primary, zones', groups')) = 7]_vars

C8_Witness ==
    /\ gen = 1 /\ pc = "idle" /\ outcome = "ready"
    /\ LeftoverOkZone \notin zones
    /\ ZoneOf(1, OkGroupId, 1) \in zones
    /\ Cardinality(ListZones(Primary, zones, groups)) = 7

(***************************************************************************)
(* C9  When the try block raised and the recovery tear_down raised too,    *)
(* the exception that leaves __init__ is the one of the try block.         *)
(***************************************************************************)
C9_OriginalErrorPropagates ==
    (AcquireFailed /\ tdErr # "none") => raised = err /\ raised # tdErr

C9_Witness ==
    /\ AcquireFailed /\ tdErr = "clear_groups_ok"
    /\ raised = "confirm_member_in_group"

(***************************************************************************)
(* C10  Once a create_zone has answered with a status other than 202, 200  *)
(* included, the call makes no further create_zone and no wait: it is in   *)
(* its except clause, in the recovery tear_down, or has raised.            *)
(***************************************************************************)
C10_NonPendingStatusFails ==
    lastStatus \notin {0, 202} =>
        /\ err = "create_zone"
        /\ pc \in {"except", "tear_down", "idle"}
        /\ pc = "tear_down" => td = "recovery"
        /\ outcome \in {"none", "raised"}

C10_Witness ==
    /\ lastStatus = 200
    /\ AcquireFailed /\ err = "create_zone" /\ raised = "create_zone"

\* the zones of Catalog that __init__ creates with the ok client
PrimaryNames == {Catalog[k].name : k \in {j \in DOMAIN Catalog : Catalog[j].client = Primary}}

\* the zones and zone changes this session's fixtures asked for with the ok client
CreatedUnderPrimary(zs) == {z \in zs : z.id # 0 /\ z.name \in PrimaryNames}

\* the user is a member of group 'ok'
MemberOfOk(u, gs) == \E g \in gs : g.id = OkGroupId /\ u \in g.members

(***************************************************************************)
(* C11  Every zone created with the ok client has group 'ok' as its admin  *)
(* group, and whenever a tear_down is at its zone clearing, group 'ok'     *)
(* exists with the ok user among its members (unless a test has taken the  *)
(* ok user out of it), so that clear_zones of the ok client lists every    *)
(* such zone.                                                              *)
(***************************************************************************)
C11_PrimaryAdministersItsZones ==
    /\ \A z \in CreatedUnderPrimary(zones \cup pending) : z.adminGroupId = OkGroupId
    /\ ( /\ pc = "tear_down" /\ tdpc \in {"clear_zones_dummy", "clear_zones_ok"}
         /\ \A g \in groups : g.id = OkGroupId => Primary \in g.members )
       => /\ MemberOfOk(Primary, groups)
          /\ CreatedUnderPrimary(zones) \subseteq ListZones(Primary, zones, groups)

(***************************************************************************)
(* C12  In a membership wait, every list_all_my_groups call after the      *)
(* first comes after a sleep made since the previous list call, no sleep   *)
(* and no list call is made once a listing has contained the group, and    *)
(* the wait raises exactly when its last listing did not contain it.       *)
(***************************************************************************)
C12_PollerProtocol ==
    [][ /\ listCalls' > listCalls => (listCalls = 0 \/ sinceSleep = 0) /\ ~success
        /\ sleeps' > sleeps => ~success
        /\ (cpc = "while" /\ cpc' = "none") =>
              (success <=> err' # "confirm_member_in_group") ]_vars

(***************************************************************************)
(* C13  When SharedZoneTestContext() has returned a fixture, each of the 8 *)
(* zone changes of its create_zone calls (7 of the ok client, 1 of the     *)
(* dummy client) has been waited for with wait_until_zone_exists, and none *)
(* of them is still pending.                                               *)
(***************************************************************************)
C13_AllChangesAwaitedBeforeReady ==
    outcome = "ready" =>
        /\ awaited = DOMAIN Catalog
        /\ Cardinality({k \in awaited : Catalog[k].client = Primary}) = 7
        /\ Cardinality({k \in awaited : Catalog[k].client = Secondary}) = 1
        /\ \A z \in pending : z.id # gen

C13_Witness ==
    /\ pc = "idle" /\ outcome = "ready" /\ awaited = 1..8
    /\ slow > 0 /\ pending = {} /\ NoEarlierRun(zones)

\* the statements of the try block of __init__
TryBlock == {"get_group", "confirm_ok", "create_group", "confirm_dummy",
             "create_zone", "wait", "list_dummy", "list_ok"}

\* the current call has made a call of that kind
HasCalled(c) == \E n \in DOMAIN calls : calls[n] = c

(***************************************************************************)
(* C14  In every SharedZoneTestContext(), whatever the remote held when it *)
(* started, the first call is tear_down, and the try block (so the first   *)
(* get_group, create_group or create_zone) is entered only when that       *)
(* tear_down has made all five of its helper calls and has returned.       *)
(***************************************************************************)
C14_TearDownCompleteBeforeFirstCall ==
    /\ pc \in TryBlock =>
          /\ tdCalls = TearDownOrder /\ tdErr = "none" /\ td = "none"
          /\ tdRuns = 1
    /\ (HasCalled("get_group") \/ HasCalled("create_group") \/ HasCalled("create_zone"))
          => calls[1] = "tear_down"

C14_Witness ==
    /\ gen = 2 /\ pc = "create_zone" /\ afterFailedCreate
    /\ tdCalls = TearDownOrder /\ calls[1] = "tear_down"

\* the calls of __init__ in the order of its statements
AcquireOrder == <<"tear_down", "get_group", "confirm_ok", "create_group",
                  "confirm_dummy", "create_zone", "wait_until_zone_exists",
                  "list_zones_dummy", "list_zones_ok">>

\* the calls made so far, without the recovery tear_down of the except clause
BeforeExcept(cs) ==
    IF Len(cs) > 1 /\ cs[Len(cs)] = "tear_down" THEN SubSeq(cs, 1, Len(cs) - 1) ELSE cs

IsPrefix(a, b) == Len(a) <= Len(b) /\ a = SubSeq(b, 1, Len(a))

(***************************************************************************)
(* C15  The calls of a SharedZoneTestContext() are made in the order       *)
(* get_group, membership wait of the ok client, create_group, membership   *)
(* wait of the dummy client, the create_zone calls, the waits for the      *)
(* zones, the two list_zones with their count assertions; create_group is  *)
(* called only after the wait of the ok client has succeeded, and          *)
(* create_zone only after both waits have.                                 *)
(***************************************************************************)
C15_CallOrder ==
    /\ IsPrefix(BeforeExcept(calls), AcquireOrder)
    /\ HasCalled("create_group") => Primary \in confirmed
    /\ HasCalled("create_zone") => confirmed = {Primary, Secondary}

C15_Witness ==
    /\ pc = "idle" /\ outcome = "ready"
    /\ calls = AcquireOrder /\ confirmed = {Primary, Secondary}

\* the most list_all_my_groups calls one membership wait makes
ListCallBudget == InitialRetries + 2

(***************************************************************************)
(* C16  When every call the fixture makes returns (the wait for a zone     *)
(* after the bound of the helper), every SharedZoneTestContext() ends,     *)
(* with a fixture or with an exception; and every membership wait ends,    *)
(* after no more than retries + 2 list_all_my_groups calls, also when no   *)
(* listing contains the group.                                             *)
(***************************************************************************)
C16_AcquireTerminates ==
    /\ [](listCalls <= ListCallBudget)
    /\ (cpc # "none") ~> (cpc = "none")
    /\ (pc # "idle" /\ td # "standalone")
          ~> (pc = "idle" /\ outcome \in {"ready", "raised"})

C16_Witness ==
    /\ pc = "confirm_dummy" /\ cpc = "while"
    /\ ~success /\ retries < 0 /\ listCalls = ListCallBudget

(***************************************************************************)
(* C17  Once a SharedZoneTestContext() has failed and its recovery         *)
(* tear_down has returned, no zone that call asked for exists in the       *)
(* remote, also when the call failed with create_zone requests still       *)
(* pending that it had not waited for.                                     *)
(***************************************************************************)
C17_NoZoneOfFailedAcquireLater ==
    (AcquireFailed /\ tdErr = "none") => \A z \in zones : z.id # gen

\* the place of a call in the calls a tear_down has made (0: not made)
PlaceOf(c, cs) == IF \E n \in DOMAIN cs : cs[n] = c
                  THEN CHOOSE n \in DOMAIN cs : cs[n] = c ELSE 0

(***************************************************************************)
(* C18  Every tear_down makes its calls in the order clear_zones of the    *)
(* dummy client, clear_zones of the ok client, clear_groups of the dummy   *)
(* client, clear_groups of the ok client (excluding 'ok'), update_group of *)
(* 'ok': no clear_groups is called before both clear_zones have been, and  *)
(* update_group is the last call of a tear_down that returns.              *)
(***************************************************************************)
C18_TearDownFixedOrder ==
    /\ IsPrefix(tdCalls, <<"clear_zones_dummy", "clear_zones_ok", "clear_groups_dummy",
                           "clear_groups_ok", "update_group">>)
    /\ \A g \in {"clear_groups_dummy", "clear_groups_ok"} :
          PlaceOf(g, tdCalls) > 0 =>
              /\ PlaceOf("clear_zones_dummy", tdCalls) \in 1..(PlaceOf(g, tdCalls) - 1)
              /\ PlaceOf("clear_zones_ok", tdCalls) \in 1..(PlaceOf(g, tdCalls) - 1)
    /\ PlaceOf("update_group", tdCalls) \in {0, Len(tdCalls)}
    /\ (pc # "tear_down" /\ tdCalls # <<>> /\ tdErr = "none")
          => tdCalls[Len(tdCalls)] = "update_group"
    /\ "clear_groups_ok" \notin okDeletedBy

C18_Witness ==
    /\ pc = "idle" /\ outcome = "td_ok" /\ tdErr = "none"
    /\ Len(tdCalls) = Len(TearDownOrder) /\ tdCalls[Len(tdCalls)] = "update_group"

\* the initial tear_down of the current SharedZoneTestContext() has raised
InitialTearDownRaised ==
    calls # <<>> /\ td = "none" /\ tdErr # "none" /\ err = "none"

(***************************************************************************)
(* C19  When the initial tear_down of a SharedZoneTestContext() raises,    *)
(* that exception leaves the call at once: no get_group, create_group or   *)
(* create_zone is made and no second tear_down, so tear_down has run once. *)
(* A call that returns a fixture has run tear_down once, and a call that   *)
(* fails in its try block has run it exactly twice.                        *)
(***************************************************************************)
C19_TearDownRunCount ==
    /\ InitialTearDownRaised =>
          /\ pc = "idle" /\ outcome = "raised" /\ raised = tdErr
          /\ calls = <<"tear_down">> /\ tdRuns = 1
          /\ ok_group = None /\ dummy_group = None
    /\ (pc = "idle" /\ outcome = "ready") => tdRuns = 1
    /\ AcquireFailed => tdRuns = 2 /\ calls[Len(calls)] = "tear_down" /\ Len(calls) > 2

C19_Witness ==
    /\ InitialTearDownRaised /\ raised = "clear_groups_dummy"
    /\ tdRuns = 1 /\ gen = 2

====
